---- MODULE Spec2Model ----
(***************************************************************************)
(* Model of the rambler_horoscopes client: the four public coroutines of   *)
(* RamblerHoroscopes (get_zodiac, get_available_types,                     *)
(* get_available_periods, get_horoscope), the pydantic entities they       *)
(* build and the enumerations they use.                                    *)
(*                                                                         *)
(* Representation of Python values                                         *)
(*   str        a sequence of tokens; a token is one character ("/", " ",  *)
(*              "\n", ",") or an indivisible word ("erotic", "Red").       *)
(*              The empty string is << >>.                                 *)
(*   Cyrillic   is written in Latin transliteration: "Rodilis" is          *)
(*              "Родились", "Stihiya" is "Стихия", "Telec" is "Телец" ...  *)
(*   Optional   None is {} and a present value v is {v}.                   *)
(*   dict       a function whose DOMAIN is the set of keys present.        *)
(*   str Enum   a member is represented by its value (its slug token).     *)
(***************************************************************************)
EXTENDS Integers, Sequences, FiniteSets, TLC

VARIABLES pc, call, request, sent, data, raw, result

vars == <<pc, call, request, sent, data, raw, result>>

-----------------------------------------------------------------------------
(* Bounds of the model *)

\* longest content.text sequence of a response
MaxBlocks == 3
\* longest highlighted items sequence of a response
MaxItems == 3
\* longest summary.compatibility sequence of a response
MaxCompat == 2
\* largest number of stories in a listing response (over all its cards)
MaxStories == 2
\* longest content.bubbles.list sequence of a response
MaxBubbles == 2

-----------------------------------------------------------------------------
(* Python builtins used by the handlers *)

None == {}

Some(v) == {v}

TheValue(opt) == CHOOSE v \in opt : TRUE

\* dict.get(key): the value under key, None when the key is absent
DictGet(d, key) == IF key \in DOMAIN d THEN Some(d[key]) ELSE None

\* d[key] = value
DictSet(d, key, value) ==
    [k \in DOMAIN d \cup {key} |-> IF k = key THEN value ELSE d[k]]

\* the attributes of a dict object (its methods): what hasattr() looks at
DictAttributes ==
    {"clear", "copy", "fromkeys", "get", "items", "keys", "pop", "popitem",
     "setdefault", "update", "values"}

\* the key-membership test (key in obj), which hasattr() is not
hasattr_as_key_test(obj, name) == name \in DOMAIN obj

\* hasattr(obj, name) for a dict obj: keys are not attributes
hasattr(obj, name) == name \in DictAttributes

\* the tokens with an uppercase letter: the words of the responses and the
\* Russian sign names capitalized, in capitals and in mixed case
UpperWords ==
    <<"A", "B", "C", "Red", "Blue", "Rose", "Lily", "X", "Fire", "Mar",
      "Oven", "Telec", "Bliznecy", "Rak", "Lev", "Deva", "Vesy",
      "Skorpion", "Strelec", "Kozerog", "Vodolej", "Ryby", "OVEN",
      "TELEC", "BLIZNECY", "RAK", "LEV", "DEVA", "VESY", "SKORPION",
      "STRELEC", "KOZEROG", "VODOLEJ", "RYBY", "oVEN", "tELEC",
      "bLIZNECY", "rAK", "lEV", "dEVA", "vESY", "sKORPION", "sTRELEC",
      "kOZEROG", "vODOLEJ", "rYBY", "Zmeenosec">>

\* their lowercase, position by position
LowerWords ==
    <<"a", "b", "c", "red", "blue", "rose", "lily", "x", "fire", "mar",
      "oven", "telec", "bliznecy", "rak", "lev", "deva", "vesy",
      "skorpion", "strelec", "kozerog", "vodolej", "ryby", "oven",
      "telec", "bliznecy", "rak", "lev", "deva", "vesy", "skorpion",
      "strelec", "kozerog", "vodolej", "ryby", "oven", "telec",
      "bliznecy", "rak", "lev", "deva", "vesy", "skorpion", "strelec",
      "kozerog", "vodolej", "ryby", "zmeenosec">>

LowerToken(t) ==
    IF \E i \in 1..Len(UpperWords) : UpperWords[i] = t
    THEN LowerWords[CHOOSE i \in 1..Len(UpperWords) : UpperWords[i] = t]
    ELSE t

\* str.lower()
Lower(s) == [i \in 1..Len(s) |-> LowerToken(s[i])]

Whitespace == {" ", "\n"}

RECURSIVE LStrip(_)
LStrip(s) ==
    IF s # << >> /\ Head(s) \in Whitespace THEN LStrip(Tail(s)) ELSE s

RECURSIVE RStrip(_)
RStrip(s) ==
    IF s # << >> /\ s[Len(s)] \in Whitespace
    THEN RStrip(SubSeq(s, 1, Len(s) - 1))
    ELSE s

\* str.strip()
Strip(s) == RStrip(LStrip(s))

RECURSIVE Join(_, _)
\* sep.join(list)
Join(sep, list) ==
    IF list = << >> THEN << >>
    ELSE IF Len(list) = 1 THEN list[1]
    ELSE list[1] \o sep \o Join(sep, Tail(list))

RECURSIVE SplitFrom(_, _, _)
SplitFrom(s, sep, current) ==
    IF s = << >> THEN <<current>>
    ELSE IF Head(s) = sep THEN <<current>> \o SplitFrom(Tail(s), sep, << >>)
    ELSE SplitFrom(Tail(s), sep, Append(current, Head(s)))

\* str.split(sep): the pieces between the separators, empty pieces kept
Split(s, sep) == SplitFrom(s, sep, << >>)

MarkupTokens == {"<b>", "</b>", "<br/>"}

\* BeautifulSoup(html, "html.parser").text: the markup is dropped
BeautifulSoupText(html) == SelectSeq(html, LAMBDA t : t \notin MarkupTokens)

\* list.index(e)
IndexOf(list, e) ==
    CHOOSE i \in 1..Len(list) : list[i] = e /\ \A j \in 1..(i - 1) : list[j] # e

RECURSIVE Insert(_, _, _)
Insert(e, sortedList, members) ==
    IF sortedList = << >> THEN <<e>>
    ELSE IF IndexOf(members, e) < IndexOf(members, Head(sortedList))
         THEN <<e>> \o sortedList
         ELSE <<Head(sortedList)>> \o Insert(e, Tail(sortedList), members)

RECURSIVE sorted(_, _)
\* sorted(list, key=lambda e: members.index(e)): stable, ascending
sorted(list, members) ==
    IF list = << >> THEN << >>
    ELSE Insert(list[Len(list)],
                sorted(SubSeq(list, 1, Len(list) - 1), members), members)

\* all sequences over S of length at most n
SeqsUpTo(S, n) == UNION {[1..k -> S] : k \in 0..n}

-----------------------------------------------------------------------------
(* Outcome of a call: a returned value, or a raised exception *)

Return(v) == [exc |-> "", value |-> v]

Raise(e) == [exc |-> e, value |-> None]

-----------------------------------------------------------------------------
(* types/enum.py *)

\* list(Zodiac), in declaration order
ZodiacEnum ==
    <<"aries", "taurus", "gemini", "cancer", "leo", "virgo", "libra",
      "scorpio", "sagittarius", "capricorn", "aquarius", "pisces">>

\* Zodiac.get_name
get_name(self) ==
    CASE self = "aries" -> <<"Oven">>
      [] self = "taurus" -> <<"Telec">>
      [] self = "gemini" -> <<"Bliznecy">>
      [] self = "cancer" -> <<"Rak">>
      [] self = "leo" -> <<"Lev">>
      [] self = "virgo" -> <<"Deva">>
      [] self = "libra" -> <<"Vesy">>
      [] self = "scorpio" -> <<"Skorpion">>
      [] self = "sagittarius" -> <<"Strelec">>
      [] self = "capricorn" -> <<"Kozerog">>
      [] self = "aquarius" -> <<"Vodolej">>
      [] self = "pisces" -> <<"Ryby">>

\* Zodiac.from_name matching the name as given, its letter case kept
from_name_without_lower(name) ==
    CASE name = <<"oven">> -> Return("aries")
      [] name = <<"telec">> -> Return("taurus")
      [] name = <<"bliznecy">> -> Return("gemini")
      [] name = <<"rak">> -> Return("cancer")
      [] name = <<"lev">> -> Return("leo")
      [] name = <<"deva">> -> Return("virgo")
      [] name = <<"vesy">> -> Return("libra")
      [] name = <<"skorpion">> -> Return("scorpio")
      [] name = <<"strelec">> -> Return("sagittarius")
      [] name = <<"kozerog">> -> Return("capricorn")
      [] name = <<"vodolej">> -> Return("aquarius")
      [] name = <<"ryby">> -> Return("pisces")
      [] OTHER -> Raise("ValueError")

\* Zodiac.from_name
from_name(name) ==
    LET lowered == Lower(name)
    IN  CASE lowered = <<"oven">> -> Return("aries")
          [] lowered = <<"telec">> -> Return("taurus")
          [] lowered = <<"bliznecy">> -> Return("gemini")
          [] lowered = <<"rak">> -> Return("cancer")
          [] lowered = <<"lev">> -> Return("leo")
          [] lowered = <<"deva">> -> Return("virgo")
          [] lowered = <<"vesy">> -> Return("libra")
          [] lowered = <<"skorpion">> -> Return("scorpio")
          [] lowered = <<"strelec">> -> Return("sagittarius")
          [] lowered = <<"kozerog">> -> Return("capricorn")
          [] lowered = <<"vodolej">> -> Return("aquarius")
          [] lowered = <<"ryby">> -> Return("pisces")
          [] OTHER -> Raise("ValueError")

\* list(HoroscopeType), in declaration order
HoroscopeType == <<"general", "love", "sex", "career", "woman", "man">>

\* list(HoroscopePeriod), had TODAY been declared first
HoroscopePeriod_today_first ==
    <<"today", "yesterday", "tomorrow", "weekly", "monthly">>

\* list(HoroscopePeriod), in declaration order
HoroscopePeriod == <<"yesterday", "today", "tomorrow", "weekly", "monthly">>

\* x in list(E) for a str Enum E: a str equal to the value of a member
InEnum(x, members) == \E i \in 1..Len(members) : x = <<members[i]>>

\* E(x): the member whose value is x
EnumOf(x, members) == members[CHOOSE i \in 1..Len(members) : x = <<members[i]>>]

-----------------------------------------------------------------------------
(* types/__init__.py: the pydantic entities *)

\* Zodiac(**kwargs), with description optional
Zodiac_description_optional(kwargs) ==
    IF {"zodiac", "born", "element"} \subseteq DOMAIN kwargs
    THEN Return([zodiac |-> kwargs["zodiac"],
                 description |-> IF "description" \in DOMAIN kwargs
                                 THEN kwargs["description"] ELSE << >>,
                 born |-> kwargs["born"],
                 element |-> kwargs["element"],
                 trait |-> DictGet(kwargs, "trait"),
                 planet |-> DictGet(kwargs, "planet"),
                 house |-> DictGet(kwargs, "house"),
                 tarot |-> DictGet(kwargs, "tarot"),
                 color |-> DictGet(kwargs, "color"),
                 stone |-> DictGet(kwargs, "stone"),
                 flower |-> DictGet(kwargs, "flower"),
                 compatibility |-> IF "compatibility" \in DOMAIN kwargs
                                   THEN kwargs["compatibility"] ELSE << >>])
    ELSE Raise("ValidationError")

\* Zodiac(**kwargs), with the three required str fields refusing the empty str
Zodiac_nonempty_required(kwargs) ==
    IF /\ {"zodiac", "description", "born", "element"} \subseteq DOMAIN kwargs
       /\ kwargs["description"] # << >>
       /\ kwargs["born"] # << >>
       /\ kwargs["element"] # << >>
    THEN Zodiac_description_optional(kwargs)
    ELSE Raise("ValidationError")

\* Zodiac(**kwargs): zodiac, description, born and element are required (a
\* str field accepts any str, the empty one included); the other str fields
\* default to None and compatibility to []
Zodiac(kwargs) ==
    IF {"zodiac", "description", "born", "element"} \subseteq DOMAIN kwargs
    THEN Return([zodiac |-> kwargs["zodiac"],
                 description |-> kwargs["description"],
                 born |-> kwargs["born"],
                 element |-> kwargs["element"],
                 trait |-> DictGet(kwargs, "trait"),
                 planet |-> DictGet(kwargs, "planet"),
                 house |-> DictGet(kwargs, "house"),
                 tarot |-> DictGet(kwargs, "tarot"),
                 color |-> DictGet(kwargs, "color"),
                 stone |-> DictGet(kwargs, "stone"),
                 flower |-> DictGet(kwargs, "flower"),
                 compatibility |-> IF "compatibility" \in DOMAIN kwargs
                                   THEN kwargs["compatibility"] ELSE << >>])
    ELSE Raise("ValidationError")

\* Horoscope(**kwargs), with text defaulting to the empty string
Horoscope_text_defaulted(kwargs) ==
    IF {"zodiac", "type", "period"} \subseteq DOMAIN kwargs
    THEN Return([zodiac |-> kwargs["zodiac"],
                 type |-> kwargs["type"],
                 period |-> kwargs["period"],
                 text |-> IF "text" \in DOMAIN kwargs
                          THEN kwargs["text"] ELSE << >>])
    ELSE Raise("ValidationError")

\* Horoscope(**kwargs): all four fields are required
Horoscope(kwargs) ==
    IF {"zodiac", "type", "period", "text"} \subseteq DOMAIN kwargs
    THEN Return([zodiac |-> kwargs["zodiac"],
                 type |-> kwargs["type"],
                 period |-> kwargs["period"],
                 text |-> kwargs["text"]])
    ELSE Raise("ValidationError")

-----------------------------------------------------------------------------
(* __init__.py: the bodies of the handlers, after the response arrived *)

RECURSIVE text_loop_skipping(_, _, _, _)
\* the content.text loop with the non-paragraph blocks skipped (continue)
text_loop_skipping(text, i, output_dicted, key) ==
    IF i > Len(text) THEN output_dicted
    ELSE IF text[i].type # <<"paragraph">>
         THEN text_loop_skipping(text, i + 1, output_dicted, key)
         ELSE LET started == IF ~hasattr(output_dicted, key)
                             THEN DictSet(output_dicted, key, << >>)
                             ELSE output_dicted
              IN  text_loop_skipping(text, i + 1,
                      DictSet(started, key,
                              started[key] \o text[i].content \o <<"\n">>),
                      key)

RECURSIVE text_loop(_, _, _, _)
\* for content in data["content"]["text"]: the loop from its i-th block on
text_loop(text, i, output_dicted, key) ==
    IF i > Len(text) THEN output_dicted
    ELSE IF text[i].type # <<"paragraph">> THEN output_dicted
         ELSE LET started == IF ~hasattr(output_dicted, key)
                             THEN DictSet(output_dicted, key, << >>)
                             ELSE output_dicted
              IN  text_loop(text, i + 1,
                      DictSet(started, key,
                              started[key] \o text[i].content \o <<"\n">>),
                      key)

\* if output_dicted.get(key) is not None: strip the markup and the blanks
text_strip(output_dicted, key) ==
    IF DictGet(output_dicted, key) # None
    THEN DictSet(output_dicted, key,
                 Strip(BeautifulSoupText(output_dicted[key])))
    ELSE output_dicted

RECURSIVE items_loop_first_wins(_, _, _)
\* the items loop with a field that is already set left as it is
items_loop_first_wins(items, i, output_dicted) ==
    IF i > Len(items) THEN output_dicted
    ELSE LET name == items[i].name
             text == Lower(items[i].text)
             Keep(key) == IF key \in DOMAIN output_dicted THEN output_dicted
                          ELSE DictSet(output_dicted, key, text)
         IN  items_loop_first_wins(items, i + 1,
                 CASE name = <<"Rodilis">> -> Keep("born")
                   [] name = <<"Stihiya">> -> Keep("element")
                   [] OTHER -> output_dicted)

RECURSIVE items_loop(_, _, _)
\* for i in range(len(items)): match items[i]["name"]
items_loop(items, i, output_dicted) ==
    IF i > Len(items) THEN output_dicted
    ELSE LET name == items[i].name
             text == Lower(items[i].text)
         IN  items_loop(items, i + 1,
                 CASE name = <<"Rodilis">> -> DictSet(output_dicted, "born", text)
                   [] name = <<"Stihiya">> -> DictSet(output_dicted, "element", text)
                   [] OTHER -> output_dicted)

\* an attribute of the summary joined and stored without lowercasing
summary_joined(output_dicted, summary, attr) ==
    IF DictGet(summary, attr) \notin {None, Some(None)}
    THEN DictSet(output_dicted, attr, Join(<<",", " ">>, TheValue(summary[attr])))
    ELSE output_dicted

\* if summary.get(attr) is not None:
\*     output_dicted[attr] = ", ".join(summary[attr]).lower()
summary_lowered(output_dicted, summary, attr) ==
    IF DictGet(summary, attr) \notin {None, Some(None)}
    THEN DictSet(output_dicted, attr,
                 Lower(Join(<<",", " ">>, TheValue(summary[attr]))))
    ELSE output_dicted

\* flower, lowercased like the other attributes
summary_flower_lowered(output_dicted, summary) ==
    summary_lowered(output_dicted, summary, "flower")

\* if summary.get("flower") is not None:
\*     output_dicted["flower"] = ", ".join(summary["flower"])
summary_flower(output_dicted, summary) ==
    summary_joined(output_dicted, summary, "flower")

RECURSIVE map_from_name_keeping_prefix(_)
\* the names resolved one by one, the resolved prefix kept on a failure
map_from_name_keeping_prefix(names) ==
    IF names = << >> THEN Return(<< >>)
    ELSE LET first == from_name(Head(names))
         IN  IF first.exc # "" THEN Return(<< >>)
             ELSE Return(<<first.value>>
                         \o map_from_name_keeping_prefix(Tail(names)).value)

RECURSIVE map_from_name(_)
\* list(map(lambda e: ZodiacEnum.from_name(e), names)): the first name
\* that does not resolve raises, and no list is built
map_from_name(names) ==
    IF names = << >> THEN Return(<< >>)
    ELSE LET first == from_name(Head(names))
             rest == map_from_name(Tail(names))
         IN  IF first.exc # "" THEN first
             ELSE IF rest.exc # "" THEN rest
             ELSE Return(<<first.value>> \o rest.value)

\* if summary.get("compatibility") is not None:
\*     with suppress(ValueError): output_dicted["compatibility"] = list(map(..))
summary_compatibility(output_dicted, summary) ==
    IF DictGet(summary, "compatibility") \notin {None, Some(None)}
    THEN LET mapped == map_from_name(TheValue(summary["compatibility"]))
         IN  IF mapped.exc = "ValueError" THEN output_dicted
             ELSE DictSet(output_dicted, "compatibility", mapped.value)
    ELSE output_dicted

\* the summary block of get_zodiac, attribute after attribute
summary_part(output_dicted, summary) ==
    LET trait == summary_lowered(output_dicted, summary, "trait")
        planet == summary_lowered(trait, summary, "planet")
        house == summary_lowered(planet, summary, "house")
        tarot == summary_lowered(house, summary, "tarot")
        color == summary_lowered(tarot, summary, "color")
        stone == summary_lowered(color, summary, "stone")
        flower == summary_flower(stone, summary)
    IN  summary_compatibility(flower, summary)

\* the highlighted block of get_zodiac: the items, then the summary
highlighted_part(output_dicted, content) ==
    IF Len(content.highlighted) >= 1
    THEN summary_part(items_loop(content.highlighted, 1, output_dicted),
                      content.summary)
    ELSE output_dicted

\* output_dicted of get_zodiac after its content.text loop
zodiac_accumulated(zodiac, content) ==
    text_loop(content.text, 1, [k \in {"zodiac"} |-> zodiac], "description")

\* get_zodiac from the response on
get_zodiac_body(zodiac, content) ==
    Zodiac(highlighted_part(
               text_strip(zodiac_accumulated(zodiac, content), "description"),
               content))

\* output_dicted of get_horoscope after its content.text loop
horoscope_accumulated(zodiac, horoscope_type, period, content) ==
    text_loop(content.text, 1,
              [k \in {"zodiac", "type", "period"} |->
                  CASE k = "zodiac" -> zodiac
                    [] k = "type" -> horoscope_type
                    [] k = "period" -> period],
              "text")

\* get_horoscope from the response on
get_horoscope_body(zodiac, horoscope_type, period, content) ==
    Horoscope(text_strip(
        horoscope_accumulated(zodiac, horoscope_type, period, content), "text"))

\* one story of get_available_types, a type already found not added again
story_types_deduplicating(output, link) ==
    LET segments == Split(link, "/")
        Add(list, e) == IF \E i \in 1..Len(list) : list[i] = e
                        THEN list ELSE Append(list, e)
    IN  IF Len(segments) < 3 THEN Raise("IndexError")
        ELSE LET horoscope_type == segments[3]
                 literal == IF InEnum(horoscope_type, HoroscopeType)
                            THEN Add(output, EnumOf(horoscope_type, HoroscopeType))
                            ELSE output
                 erotic == IF horoscope_type = <<"erotic">>
                           THEN Add(literal, "love") ELSE literal
                 sex == IF horoscope_type = <<"sex-horoscope">>
                        THEN Add(erotic, "sex") ELSE erotic
             IN  Return(sex)

\* one story of get_available_types: the types its link contributes
story_types(output, link) ==
    LET segments == Split(link, "/")
    IN  IF Len(segments) < 3 THEN Raise("IndexError")
        ELSE LET horoscope_type == segments[3]
                 literal == IF InEnum(horoscope_type, HoroscopeType)
                            THEN Append(output, EnumOf(horoscope_type, HoroscopeType))
                            ELSE output
                 erotic == IF horoscope_type = <<"erotic">>
                           THEN Append(literal, "love") ELSE literal
                 sex == IF horoscope_type = <<"sex-horoscope">>
                        THEN Append(erotic, "sex") ELSE erotic
             IN  Return(sex)

RECURSIVE stories_loop(_, _, _)
\* for story in card["stories"]
stories_loop(stories, i, output) ==
    IF i > Len(stories) THEN Return(output)
    ELSE LET step == story_types(output, stories[i].link)
         IN  IF step.exc # "" THEN step
             ELSE stories_loop(stories, i + 1, step.value)

RECURSIVE cards_loop(_, _, _)
\* for card in data["cards"]
cards_loop(cards, i, output) ==
    IF i > Len(cards) THEN Return(output)
    ELSE LET step == stories_loop(cards[i].stories, 1, output)
         IN  IF step.exc # "" THEN step
             ELSE cards_loop(cards, i + 1, step.value)

\* get_available_types from the response on
get_available_types_body(cards) ==
    LET output == cards_loop(cards, 1, <<"general">>)
    IN  IF output.exc # "" THEN output
        ELSE Return(sorted(output.value, HoroscopeType))

\* the inspected index with the two cases exchanged
period_index_exchanged(horoscope_type) ==
    IF horoscope_type # "general" THEN 2 ELSE 3

\* the index of the link segment get_available_periods inspects
\* (3 if horoscope_type != GENERAL else 2, counted from 0)
period_index(horoscope_type) == IF horoscope_type # "general" THEN 3 ELSE 2

\* one bubble of get_available_periods: the period its link contributes
bubble_periods(output, link, horoscope_type) ==
    LET segments == Split(link, "/")
        index == period_index(horoscope_type)
    IN  IF Len(segments) < index + 1 THEN Raise("IndexError")
        ELSE LET horoscope_period == segments[index + 1]
             IN  IF InEnum(horoscope_period, HoroscopePeriod)
                 THEN Return(Append(output,
                                    EnumOf(horoscope_period, HoroscopePeriod)))
                 ELSE Return(output)

RECURSIVE bubbles_loop(_, _, _, _)
\* for bubble in data["content"]["bubbles"]["list"]
bubbles_loop(bubbles, i, output, horoscope_type) ==
    IF i > Len(bubbles) THEN Return(output)
    ELSE LET step == bubble_periods(output, bubbles[i].link, horoscope_type)
         IN  IF step.exc # "" THEN step
             ELSE bubbles_loop(bubbles, i + 1, step.value, horoscope_type)

\* get_available_periods from the response on
get_available_periods_body(bubbles, horoscope_type) ==
    LET output == bubbles_loop(bubbles, 1, <<"today">>, horoscope_type)
    IN  IF output.exc # "" THEN output
        ELSE Return(sorted(output.value, HoroscopePeriod))

-----------------------------------------------------------------------------
(* The responses of the upstream API the model draws from *)

Paragraph(content) == [type |-> <<"paragraph">>, content |-> content]

Quote(content) == [type |-> <<"quote">>, content |-> content]

Contents == {<< >>, <<"A">>, <<"<b>", "B", "</b>", " ">>}

Blocks == {Paragraph(c) : c \in Contents} \cup {Quote(<<"C">>)}

Texts == SeqsUpTo(Blocks, MaxBlocks)

TextsSmall ==
    {<< >>, <<Paragraph(<<"A">>)>>, <<Paragraph(<< >>)>>}

Item(name, text) == [name |-> name, text |-> text]

ItemKinds ==
    {Item(<<"Rodilis">>, <<"Mar">>), Item(<<"Rodilis">>, << >>),
     Item(<<"Stihiya">>, <<"Fire">>), Item(<<"Stihiya">>, << >>),
     Item(<<"Simvol">>, <<"X">>)}

Items == SeqsUpTo(ItemKinds, MaxItems)

ItemsFull == <<Item(<<"Rodilis">>, <<"Mar">>), Item(<<"Stihiya">>, <<"Fire">>)>>

ItemsSmall == {<< >>, ItemsFull, <<Item(<<"Rodilis">>, <<"Mar">>)>>}

StrAttrs == {"trait", "planet", "house", "tarot", "color", "stone", "flower"}

AttrLists ==
    {<<<<"Red">>, <<"Blue">>>>, <<<<"Rose">>, <<"Lily">>>>, << >>}

\* a summary whose attributes in present hold list, the others being JSON
\* null (nulls) or missing
StrSummary(present, list, nulls) ==
    [a \in (IF nulls THEN StrAttrs ELSE present) |->
        IF a \in present THEN Some(list) ELSE None]

StrSummaries ==
    {StrSummary(present, list, nulls) :
        present \in SUBSET StrAttrs, list \in AttrLists, nulls \in BOOLEAN}

StrSummariesSmall ==
    {StrSummary({}, << >>, FALSE),
     StrSummary({"color", "flower"}, <<<<"Red">>, <<"Blue">>>>, FALSE)}

CompatNames == {<<"Telec">>, <<"RAK">>, <<"???">>}

\* content.summary.compatibility: missing, null or a list of names
Compats ==
    {None, Some(None)}
        \cup {Some(Some(names)) : names \in SeqsUpTo(CompatNames, MaxCompat)}

CompatsSmall == {None, Some(Some(<<<<"Telec">>, <<"???">>>>))}

WithCompat(summary, compat) ==
    IF compat = None THEN summary
    ELSE DictSet(summary, "compatibility", TheValue(compat))

Summaries ==
    {WithCompat(s, c) : s \in StrSummaries, c \in CompatsSmall}
        \cup {WithCompat(s, c) : s \in StrSummariesSmall, c \in Compats}

SummariesSmall ==
    {WithCompat(s, None) : s \in StrSummariesSmall}

Story(link) == [link |-> link]

StoryLinks ==
    {<<"/", "aries", "/", "erotic", "/">>,
     <<"/", "aries", "/", "career", "/">>,
     <<"/", "aries", "/", "sex-horoscope", "/">>,
     <<"/", "aries", "/", "general", "/">>,
     <<"/", "aries", "/", "weekly", "/">>,
     <<"/", "man", "/", "aries", "/">>,
     <<"/", "aries">>}

StoryLists == SeqsUpTo({Story(l) : l \in StoryLinks}, MaxStories)

Card(stories) == [stories |-> stories]

\* the listings of at most two cards
CardLists ==
    {<< >>}
        \cup {<<Card(s)>> : s \in StoryLists}
        \cup UNION {{<<Card(SubSeq(s, 1, i)), Card(SubSeq(s, i + 1, Len(s)))>> :
                        i \in 0..Len(s)} : s \in StoryLists}

BubbleLinks ==
    {<<"/", "aries", "/", "weekly", "/">>,
     <<"/", "aries", "/", "yesterday", "/">>,
     <<"/", "aries", "/", "career", "/", "tomorrow", "/">>,
     <<"/", "aries", "/", "monthly", "/", "today", "/">>,
     <<"/", "aries", "/", "career", "/">>,
     <<"/", "aries", "/", "weekly">>}

BubbleLists == SeqsUpTo({Story(l) : l \in BubbleLinks}, MaxBubbles)

\* a response document: content.text, content.highlighted.list[0].items,
\* content.summary, content.bubbles.list and cards
Doc(text, highlighted, summary, bubbles, cards) ==
    [content |-> [text |-> text, highlighted |-> highlighted,
                  summary |-> summary, bubbles |-> bubbles],
     cards |-> cards]

NoSummary == StrSummary({}, << >>, FALSE)

ZodiacDocs ==
    {Doc(t, i, s, << >>, << >>) :
        t \in Texts, i \in ItemsSmall, s \in SummariesSmall}
    \cup {Doc(t, i, s, << >>, << >>) :
        t \in TextsSmall, i \in Items, s \in SummariesSmall}
    \cup {Doc(t, i, s, << >>, << >>) :
        t \in {<<Paragraph(<<"A">>)>>}, i \in {<< >>, ItemsFull}, s \in Summaries}

HoroscopeDocs == {Doc(t, << >>, NoSummary, << >>, << >>) : t \in Texts}

TypesDocs == {Doc(<< >>, << >>, NoSummary, << >>, c) : c \in CardLists}

PeriodsDocs == {Doc(<< >>, << >>, NoSummary, b, << >>) : b \in BubbleLists}

\* what _make_request raises: httpx.HTTPError, orjson.JSONDecodeError
TransportErrors == {"HTTPError", "JSONDecodeError"}

\* the signs, types and periods the calls are made with
CallSigns == {"aries", "pisces"}

CallTypes == {HoroscopeType[i] : i \in 1..Len(HoroscopeType)}

CallPeriods == {HoroscopePeriod[i] : i \in 1..Len(HoroscopePeriod)}

-----------------------------------------------------------------------------
(* The client: one call at a time, suspended while its request is awaited *)

api_url == <<"https://horoscopes.rambler.ru/api/front/v3/horoscope/">>

NoCall == [op |-> "", zodiac |-> "", horoscope_type |-> "", period |-> ""]

Pending == [exc |-> "pending", value |-> None]

Init ==
    /\ pc = "idle"
    /\ call = NoCall
    /\ request = << >>
    /\ sent = 0
    /\ data = Pending
    /\ raw = None
    /\ result = Pending

\* a coroutine runs up to `await client.send(request)`
Send(op, zodiac, horoscope_type, period, url) ==
    /\ pc' = "awaiting"
    /\ call' = [op |-> op, zodiac |-> zodiac,
                horoscope_type |-> horoscope_type, period |-> period]
    /\ request' = url
    /\ sent' = 1
    /\ data' = Pending
    /\ raw' = None
    /\ result' = Pending

\* the coroutine awaiting the response of op
Awaiting(op) == pc = "awaiting" /\ call.op = op

\* the awaited _make_request returns doc and the coroutine runs to its end
Resume(doc, accumulated, outcome) ==
    /\ pc' = "done"
    /\ data' = Return(doc)
    /\ raw' = accumulated
    /\ result' = outcome
    /\ UNCHANGED <<call, request, sent>>

\* the awaited _make_request raises and the request is sent a second time
make_request_retried_once ==
    \E e \in TransportErrors :
        /\ pc = "awaiting"
        /\ IF sent < 2
           THEN /\ sent' = sent + 1
                /\ UNCHANGED <<pc, call, request, data, raw, result>>
           ELSE /\ pc' = "done"
                /\ data' = Raise(e)
                /\ raw' = None
                /\ result' = Raise(e)
                /\ UNCHANGED <<call, request, sent>>

\* the awaited _make_request raises: no handler catches it, and the
\* exception is the outcome of the coroutine
make_request_raises ==
    \E e \in TransportErrors :
        /\ pc = "awaiting"
        /\ pc' = "done"
        /\ data' = Raise(e)
        /\ raw' = None
        /\ result' = Raise(e)
        /\ UNCHANGED <<call, request, sent>>

\* the coroutine is over: its outcome went to the caller, its locals are
\* gone, and the client (which keeps nothing between calls) takes the next call
call_ends ==
    /\ pc = "done"
    /\ pc' = "idle"
    /\ call' = NoCall
    /\ request' = << >>
    /\ sent' = 0
    /\ data' = Pending
    /\ raw' = None
    /\ result' = Pending

get_zodiac ==
    /\ pc = "idle"
    /\ \E zodiac \in CallSigns :
            Send("get_zodiac", zodiac, "", "",
                 api_url \o <<"description", "/", zodiac, "/">>)

get_zodiac_resume ==
    /\ Awaiting("get_zodiac")
    /\ \E doc \in ZodiacDocs :
            Resume(doc,
                   DictGet(zodiac_accumulated(call.zodiac, doc.content),
                           "description"),
                   get_zodiac_body(call.zodiac, doc.content))

get_available_types ==
    /\ pc = "idle"
    /\ \E zodiac \in CallSigns :
            Send("get_available_types", zodiac, "", "",
                 api_url \o <<"general", "/", zodiac, "/", "today", "/">>)

get_available_types_resume ==
    /\ Awaiting("get_available_types")
    /\ \E doc \in TypesDocs :
            Resume(doc, None,
                   get_available_types_body(doc.cards))

get_available_periods ==
    /\ pc = "idle"
    /\ \E zodiac \in CallSigns, horoscope_type \in CallTypes :
            Send("get_available_periods", zodiac, horoscope_type, "",
                 api_url \o <<horoscope_type, "/", zodiac, "/", "today", "/">>)

get_available_periods_resume ==
    /\ Awaiting("get_available_periods")
    /\ \E doc \in PeriodsDocs :
            Resume(doc, None,
                   get_available_periods_body(doc.content.bubbles,
                                              call.horoscope_type))

\* get_horoscope requesting the page of the period asked for
get_horoscope_requesting_period ==
    /\ pc = "idle"
    /\ \E zodiac \in CallSigns, horoscope_type \in CallTypes, period \in CallPeriods :
            Send("get_horoscope", zodiac, horoscope_type, period,
                 api_url \o <<horoscope_type, "/", zodiac, "/", period, "/">>)

get_horoscope ==
    /\ pc = "idle"
    /\ \E zodiac \in CallSigns, horoscope_type \in CallTypes, period \in CallPeriods :
            Send("get_horoscope", zodiac, horoscope_type, period,
                 api_url \o <<horoscope_type, "/", zodiac, "/", "today", "/">>)

get_horoscope_resume ==
    /\ Awaiting("get_horoscope")
    /\ \E doc \in HoroscopeDocs :
            Resume(doc,
                   DictGet(horoscope_accumulated(call.zodiac, call.horoscope_type,
                                                 call.period, doc.content),
                           "text"),
                   get_horoscope_body(call.zodiac, call.horoscope_type,
                                      call.period, doc.content))

Next ==
    \/ get_zodiac
    \/ get_zodiac_resume
    \/ get_available_types
    \/ get_available_types_resume
    \/ get_available_periods
    \/ get_available_periods_resume
    \/ get_horoscope
    \/ get_horoscope_resume
    \/ make_request_raises
    \/ call_ends

Spec == Init /\ [][Next]_vars

-----------------------------------------------------------------------------
(* Vocabulary of the properties *)

\* the call of op is over and its request was answered with a document
Done(op) == pc = "done" /\ call.op = op /\ data.exc = ""

Content == data.value.content

\* two outcomes raise the same exception or return the same value
SameOutcome(a, b) == a.exc = b.exc /\ (a.exc = "" => a.value = b.value)

IsParagraph(block) == block.type = <<"paragraph">>

\* the length of the leading run of paragraph blocks of text
LeadingCount(text) ==
    CHOOSE k \in 0..Len(text) :
        /\ \A i \in 1..k : IsParagraph(text[i])
        /\ k = Len(text) \/ ~IsParagraph(text[k + 1])

RECURSIVE Concatenated(_, _)
\* c1 + "\n" + ... + ck + "\n" for the first k blocks of text
Concatenated(text, k) ==
    IF k = 0 THEN << >>
    ELSE Concatenated(text, k - 1) \o text[k].content \o <<"\n">>

\* the key the content.text loop of op accumulates under
TextKey(op) == IF op = "get_zodiac" THEN "description" ELSE "text"

TextOps == {"get_zodiac", "get_horoscope"}

-----------------------------------------------------------------------------
\* C1: after the content.text loop of get_zodiac and of get_horoscope, the
\* accumulated raw string is the content of every leading paragraph, in
\* order, each followed by a newline: c1 + "\n" + ... + ck + "\n".
C1_AccumulatesEveryLeadingParagraph ==
    \A op \in TextOps :
        Done(op) /\ LeadingCount(Content.text) >= 1
            => raw = Some(Concatenated(Content.text, LeadingCount(Content.text)))

-----------------------------------------------------------------------------
\* what the content.text loop of op accumulates on the response with its
\* content.text replaced by text
AccumulatedOnText(op, text) ==
    IF op = "get_zodiac"
    THEN DictGet(zodiac_accumulated(call.zodiac, [Content EXCEPT !.text = text]),
                 "description")
    ELSE DictGet(horoscope_accumulated(call.zodiac, call.horoscope_type,
                                       call.period,
                                       [Content EXCEPT !.text = text]),
                 "text")

\* the outcome of the call of op on the response with its content.text
\* replaced by text
OutcomeOnText(op, text) ==
    IF op = "get_zodiac"
    THEN get_zodiac_body(call.zodiac, [Content EXCEPT !.text = text])
    ELSE get_horoscope_body(call.zodiac, call.horoscope_type, call.period,
                            [Content EXCEPT !.text = text])

\* C2: the content.text scan ends at the first block that is no paragraph:
\* the accumulated string and the outcome of the call are those of the
\* document cut before that block, whatever follows it, and nothing at all
\* is accumulated when the first block is no paragraph.
C2_ScanEndsAtFirstNonParagraph ==
    \A op \in TextOps :
        Done(op) =>
            LET k == LeadingCount(Content.text)
                cut == SubSeq(Content.text, 1, k)
            IN  /\ k = 0 => raw = None
                /\ k >= 1 => raw # None
                /\ raw = AccumulatedOnText(op, cut)
                /\ SameOutcome(result, OutcomeOnText(op, cut))

\* a profile was returned for a document with a paragraph after its first
\* non-paragraph block
C2_Witness ==
    /\ Done("get_zodiac")
    /\ result.exc = ""
    /\ LeadingCount(Content.text) = 1
    /\ Len(Content.text) = 3
    /\ Content.text[1].content = <<"A">>
    /\ IsParagraph(Content.text[3])
    /\ Content.text[3].content = <<"<b>", "B", "</b>", " ">>
    /\ result.value.description = <<"A">>

-----------------------------------------------------------------------------
\* C3: get_zodiac on a document from which no description is derivable
\* (content.text empty, or its first block no paragraph) raises a validation
\* error and returns no profile, whatever the items and the summary hold.
C3_NoDescriptionFails ==
    Done("get_zodiac")
        /\ (Content.text = << >> \/ ~IsParagraph(Content.text[1]))
        => result.exc = "ValidationError"

\* the items give born and element, the first block is a quote
C3_Witness ==
    /\ Done("get_zodiac")
    /\ Content.text # << >>
    /\ ~IsParagraph(Content.text[1])
    /\ Content.highlighted = ItemsFull
    /\ "color" \in DOMAIN Content.summary
    /\ result.exc = "ValidationError"

-----------------------------------------------------------------------------
\* some item of the highlighted list carries the label name
HasItem(name) ==
    \E i \in 1..Len(Content.highlighted) : Content.highlighted[i].name = name

\* C4 as stated: every profile get_zodiac returns has a non-empty
\* description, born and element; a document in which one of them normalizes
\* to a missing or empty string makes the construction fail.
C4_RequiredFieldsNonEmpty ==
    Done("get_zodiac") /\ result.exc = ""
        => /\ result.value.description # << >>
           /\ result.value.born # << >>
           /\ result.value.element # << >>

\* C4 as amended: get_zodiac returns a profile exactly when description, born
\* and element are all derivable (content.text begins with a paragraph, an
\* item is named "Родились" and an item is named "Стихия") and raises a
\* validation error otherwise; the three fields of a returned profile are the
\* normalized strings, the empty string included.
C4_RequiredFieldsPresent ==
    Done("get_zodiac") =>
        LET derivable == /\ LeadingCount(Content.text) >= 1
                         /\ HasItem(<<"Rodilis">>)
                         /\ HasItem(<<"Stihiya">>)
        IN  /\ derivable => result.exc = ""
            /\ ~derivable => result.exc = "ValidationError"
            /\ result.exc = "" =>
                   /\ result.value.description
                          = Strip(BeautifulSoupText(TheValue(raw)))
                   /\ \E i \in 1..Len(Content.highlighted) :
                          result.value.born = Lower(Content.highlighted[i].text)
                   /\ \E i \in 1..Len(Content.highlighted) :
                          result.value.element = Lower(Content.highlighted[i].text)

\* a profile whose description and born are the empty string was returned
C4_Witness ==
    /\ Done("get_zodiac")
    /\ result.exc = ""
    /\ Content.text = <<Paragraph(<< >>)>>
    /\ result.value.description = << >>
    /\ result.value.born = << >>
    /\ result.value.element = <<"fire">>

-----------------------------------------------------------------------------
\* C5 as stated: get_horoscope returns a reading that echoes the requested
\* sign, type and period for every fetched document, with the empty text
\* when content.text has no leading paragraph.
C5_ReadingAlwaysReturned ==
    Done("get_horoscope") =>
        /\ result.exc = ""
        /\ result.value.zodiac = call.zodiac
        /\ result.value.type = call.horoscope_type
        /\ result.value.period = call.period
        /\ LeadingCount(Content.text) = 0 => result.value.text = << >>

\* C5 as amended: get_horoscope returns a reading that echoes the requested
\* sign, type and period for every fetched document whose content.text
\* begins with a paragraph, also when the extracted text is empty; when
\* content.text has no leading paragraph the call raises a validation error.
C5_ReadingEchoesRequest ==
    Done("get_horoscope") =>
        /\ LeadingCount(Content.text) >= 1 =>
               /\ result.exc = ""
               /\ result.value.zodiac = call.zodiac
               /\ result.value.type = call.horoscope_type
               /\ result.value.period = call.period
               /\ result.value.text = Strip(BeautifulSoupText(TheValue(raw)))
        /\ LeadingCount(Content.text) = 0 => result.exc = "ValidationError"

\* a reading with the empty text was returned for a weekly love horoscope
C5_Witness ==
    /\ Done("get_horoscope")
    /\ call.horoscope_type = "love"
    /\ call.period = "weekly"
    /\ LeadingCount(Content.text) >= 1
    /\ result.exc = ""
    /\ result.value.text = << >>
    /\ result.value.period = "weekly"

-----------------------------------------------------------------------------
\* the number of elements of list equal to e
Count(list, e) == Cardinality({i \in 1..Len(list) : list[i] = e})

\* list ascends in the declaration order members
IsSorted(list, members) ==
    \A i \in 1..(Len(list) - 1) :
        IndexOf(members, list[i]) <= IndexOf(members, list[i + 1])

RECURSIVE Flattened(_)
\* the story links of a listing, card after card
Flattened(cards) ==
    IF cards = << >> THEN << >>
    ELSE [i \in 1..Len(Head(cards).stories) |-> Head(cards).stories[i].link]
             \o Flattened(Tail(cards))

\* the segment of link at index (counted from 0), << >> when it has none
Segment(link, index) ==
    LET segments == Split(link, "/")
    IN  IF index + 1 <= Len(segments) THEN segments[index + 1] ELSE << >>

\* the number of entries of type t the story links contribute
TypeContributions(links, t) ==
    Cardinality({i \in 1..Len(links) :
        \/ Segment(links[i], 2) = <<t>>
        \/ t = "love" /\ Segment(links[i], 2) = <<"erotic">>
        \/ t = "sex" /\ Segment(links[i], 2) = <<"sex-horoscope">>})

EroticLink == <<"/", "aries", "/", "erotic", "/">>

CareerLink == <<"/", "aries", "/", "career", "/">>

\* C6: get_available_types returns general plus, for each story, the type
\* its link segment at index 2 contributes (a HoroscopeType slug that type,
\* "erotic" LOVE, "sex-horoscope" SEX, anything else nothing), duplicates
\* kept, in HoroscopeType declaration order: general is first, no story
\* gives [general], erotic and career give [general, love, career] and two
\* erotic stories give [general, love, love].
C6_TypesAreGeneralPlusContributions ==
    Done("get_available_types") /\ result.exc = "" =>
        LET links == Flattened(data.value.cards)
            output == result.value
        IN  /\ IsSorted(output, HoroscopeType)
            /\ output[1] = "general"
            /\ \A t \in CallTypes :
                   Count(output, t)
                       = TypeContributions(links, t) + (IF t = "general" THEN 1 ELSE 0)
            /\ Len(output) <= 1 + Len(links)
            /\ links = << >> => output = <<"general">>
            /\ links \in {<<EroticLink, CareerLink>>, <<CareerLink, EroticLink>>}
                   => output = <<"general", "love", "career">>
            /\ links = <<EroticLink, EroticLink>>
                   => output = <<"general", "love", "love">>

\* two erotic stories, one in each of two cards, gave [general, love, love]
C6_Witness ==
    /\ Done("get_available_types")
    /\ Len(data.value.cards) = 2
    /\ Flattened(data.value.cards) = <<EroticLink, EroticLink>>
    /\ Len(data.value.cards[1].stories) = 1
    /\ result.exc = ""
    /\ result.value = <<"general", "love", "love">>

-----------------------------------------------------------------------------
\* the bubble links of the response
BubbleLinksOf == [i \in 1..Len(Content.bubbles) |-> Content.bubbles[i].link]

\* the index get_available_periods is said to inspect for the requested type
InspectedIndex == IF call.horoscope_type = "general" THEN 2 ELSE 3

\* the number of entries of period p the bubble links contribute
PeriodContributions(links, p) ==
    Cardinality({i \in 1..Len(links) : Segment(links[i], InspectedIndex) = <<p>>})

\* C7 as stated: the list get_available_periods returns always begins with
\* today.
C7_TodayFirst ==
    Done("get_available_periods") /\ result.exc = ""
        => result.value[1] = "today"

\* C7 as amended: the list get_available_periods returns always contains
\* today and ascends in HoroscopePeriod declaration order, in which
\* yesterday precedes today: it begins with today unless a bubble
\* contributes yesterday, and then it begins with the yesterday entries,
\* followed by today.
C7_TodayAfterYesterday ==
    Done("get_available_periods") /\ result.exc = "" =>
        LET yesterdays == PeriodContributions(BubbleLinksOf, "yesterday")
            output == result.value
        IN  /\ Count(output, "today") >= 1
            /\ IsSorted(output, HoroscopePeriod)
            /\ \A i \in 1..yesterdays : output[i] = "yesterday"
            /\ output[yesterdays + 1] = "today"

\* a yesterday bubble of the general listing put yesterday before today
C7_Witness ==
    /\ Done("get_available_periods")
    /\ call.horoscope_type = "general"
    /\ BubbleLinksOf = <<<<"/", "aries", "/", "yesterday", "/">>>>
    /\ result.exc = ""
    /\ result.value = <<"yesterday", "today">>

-----------------------------------------------------------------------------
\* C8: get_available_periods inspects the link segment at index 2 when the
\* requested type is GENERAL and at index 3 otherwise; it returns today plus
\* one entry per bubble whose inspected segment is a HoroscopePeriod slug, in
\* HoroscopePeriod declaration order; GENERAL with one bubble whose index-2
\* segment is "weekly" gives [today, weekly].
C8_PeriodsFromInspectedSegment ==
    Done("get_available_periods") /\ result.exc = "" =>
        LET links == BubbleLinksOf
            output == result.value
        IN  /\ IsSorted(output, HoroscopePeriod)
            /\ \A p \in CallPeriods :
                   Count(output, p)
                       = PeriodContributions(links, p) + (IF p = "today" THEN 1 ELSE 0)
            /\ call.horoscope_type = "general"
                   /\ links = <<<<"/", "aries", "/", "weekly", "/">>>>
                   => output = <<"today", "weekly">>

\* for a type other than general the index-3 segment "tomorrow" was taken
\* and the index-2 segment "monthly" of another bubble was not
C8_Witness ==
    /\ Done("get_available_periods")
    /\ call.horoscope_type = "career"
    /\ BubbleLinksOf = <<<<"/", "aries", "/", "career", "/", "tomorrow", "/">>,
                         <<"/", "aries", "/", "monthly", "/", "today", "/">>>>
    /\ result.exc = ""
    /\ result.value = <<"today", "today", "tomorrow">>

-----------------------------------------------------------------------------
\* content.summary.compatibility is present and not null
HasCompatibility ==
    DictGet(Content.summary, "compatibility") \notin {None, Some(None)}

CompatibilityNames == TheValue(Content.summary["compatibility"])

\* name is, letter case aside, the Russian name of a sign
Resolves(name) ==
    \E i \in 1..Len(ZodiacEnum) : Lower(get_name(ZodiacEnum[i])) = Lower(name)

\* the sign whose Russian name is name, letter case aside
Resolved(name) ==
    ZodiacEnum[CHOOSE i \in 1..Len(ZodiacEnum) :
                   Lower(get_name(ZodiacEnum[i])) = Lower(name)]

\* the response without its content.summary.compatibility
WithoutCompatibility ==
    [Content EXCEPT !.summary =
        [a \in DOMAIN Content.summary \ {"compatibility"} |-> Content.summary[a]]]

\* C9: the compatibility parsing of get_zodiac is all or nothing and never
\* fails the call: when every name resolves the profile's compatibility is
\* the resolved signs in input order, when one does not it is empty, and in
\* both cases the outcome is otherwise the one of the same document without
\* a compatibility list.
C9_CompatibilityAllOrNothing ==
    Done("get_zodiac") /\ HasCompatibility =>
        LET names == CompatibilityNames
            without == get_zodiac_body(call.zodiac, WithoutCompatibility)
        IN  /\ result.exc = without.exc
            /\ result.exc \in {"", "ValidationError"}
            /\ result.exc = "" =>
                   /\ [result.value EXCEPT !.compatibility = << >>] = without.value
                   /\ Content.highlighted # << >>
                          /\ (\A i \in 1..Len(names) : Resolves(names[i]))
                          => result.value.compatibility
                                 = [i \in 1..Len(names) |-> Resolved(names[i])]
                   /\ (\E i \in 1..Len(names) : ~Resolves(names[i]))
                          => result.value.compatibility = << >>

\* a profile with no compatible sign was returned for the names Телец, ???
C9_Witness ==
    /\ Done("get_zodiac")
    /\ HasCompatibility
    /\ CompatibilityNames = <<<<"Telec">>, <<"???">>>>
    /\ result.exc = ""
    /\ result.value.compatibility = << >>
    /\ result.value.born = <<"mar">>

-----------------------------------------------------------------------------
LoweredAttrs == {"trait", "planet", "house", "tarot", "color", "stone"}

\* the summary holds a list under attr
HasAttr(attr) == DictGet(Content.summary, attr) \notin {None, Some(None)}

AttrList(attr) == TheValue(Content.summary[attr])

\* C10: with a non-empty highlighted items list, each of trait, planet, house,
\* tarot, color and stone that is present and not null is stored as its
\* elements joined with ", " and lowercased, flower is stored joined with
\* ", " in its own letter case, and an absent or null attribute is left
\* unset; ["Red", "Blue"] gives color "red, blue" and ["Rose", "Lily"] gives
\* flower "Rose, Lily".
C10_SummaryNormalization ==
    Done("get_zodiac") /\ result.exc = "" /\ Content.highlighted # << >> =>
        /\ \A attr \in LoweredAttrs :
               result.value[attr]
                   = IF HasAttr(attr)
                     THEN Some(Lower(Join(<<",", " ">>, AttrList(attr))))
                     ELSE None
        /\ result.value.flower
               = IF HasAttr("flower")
                 THEN Some(Join(<<",", " ">>, AttrList("flower")))
                 ELSE None
        /\ HasAttr("color") /\ AttrList("color") = <<<<"Red">>, <<"Blue">>>>
               => result.value.color = Some(<<"red", ",", " ", "blue">>)
        /\ HasAttr("flower") /\ AttrList("flower") = <<<<"Rose">>, <<"Lily">>>>
               => result.value.flower = Some(<<"Rose", ",", " ", "Lily">>)

\* stone and flower hold the same list, tarot is null and color is missing:
\* stone was lowercased, flower was not, tarot and color stayed unset
C10_Witness ==
    /\ Done("get_zodiac")
    /\ result.exc = ""
    /\ Content.highlighted # << >>
    /\ HasAttr("stone")
    /\ AttrList("stone") = <<<<"Rose">>, <<"Lily">>>>
    /\ "tarot" \in DOMAIN Content.summary
    /\ result.value.stone = Some(<<"rose", ",", " ", "lily">>)
    /\ result.value.flower = Some(<<"Rose", ",", " ", "Lily">>)
    /\ result.value.tarot = None
    /\ result.value.color = None

-----------------------------------------------------------------------------
(* Zodiac.get_name and Zodiac.from_name applied on their own, and one to    *)
(* the result of the other                                                  *)

\* the Russian names of the twelve signs, as get_name gives them
RussianNames == {get_name(ZodiacEnum[i]) : i \in 1..Len(ZodiacEnum)}

\* the tokens str.lower() knows, in either case
CasedTokens ==
    {UpperWords[i] : i \in 1..Len(UpperWords)}
        \cup {LowerWords[i] : i \in 1..Len(LowerWords)}

\* the Russian names in every letter case the model writes
NameSpellings ==
    {name \in {<<w>> : w \in CasedTokens} :
        \E n \in RussianNames : Lower(name) = Lower(n)}

\* strings that are no Russian sign name in any letter case
OtherStrings ==
    {<< >>, <<"???">>, <<"Zmeenosec">>, <<"zmeenosec">>, <<"aries">>,
     <<"Telec", " ">>, <<"Telec", "Rak">>, <<"Red">>}

\* the value of op(argument) is there
Applied(op, argument, outcome) ==
    /\ pc' = "done"
    /\ call' = [NoCall EXCEPT !.op = op]
    /\ data' = Return(argument)
    /\ result' = outcome
    /\ UNCHANGED <<request, sent, raw>>

\* Zodiac.from_name(name)
from_name_applied ==
    /\ pc = "idle"
    /\ \E name \in NameSpellings \cup OtherStrings :
            Applied("from_name", name, from_name(name))

\* zodiac.get_name()
get_name_applied ==
    /\ pc = "idle"
    /\ \E i \in 1..Len(ZodiacEnum) :
            Applied("get_name", ZodiacEnum[i], Return(get_name(ZodiacEnum[i])))

\* Zodiac.from_name(name).get_name()
get_name_of_from_name ==
    /\ pc = "done"
    /\ call.op = "from_name"
    /\ result.exc = ""
    /\ Applied("get_name(from_name)", data.value, Return(get_name(result.value)))

\* Zodiac.from_name(zodiac.get_name())
from_name_of_get_name ==
    /\ pc = "done"
    /\ call.op = "get_name"
    /\ Applied("from_name(get_name)", data.value, from_name(result.value))

NextNames ==
    \/ from_name_applied
    \/ get_name_applied
    \/ get_name_of_from_name
    \/ from_name_of_get_name
    \/ call_ends

SpecNames == Init /\ [][NextNames]_vars

-----------------------------------------------------------------------------
\* C11: from_name is the case-insensitive partial inverse of get_name:
\* from_name(get_name(s)) is s for each of the twelve signs,
\* get_name(from_name(n)) is n, letter case aside, for each of the twelve
\* Russian names n in any letter case, and from_name raises the
\* unrecognized-name error (ValueError) for every other string, returning no
\* default sign.
C11_FromNameInvertsGetName ==
    pc = "done" =>
        /\ call.op = "from_name(get_name)" =>
               result.exc = "" /\ result.value = data.value
        /\ call.op = "get_name(from_name)" =>
               Lower(result.value) = Lower(data.value)
        /\ call.op = "from_name" =>
               /\ data.value \in NameSpellings =>
                      /\ result.exc = ""
                      /\ \E i \in 1..Len(ZodiacEnum) : result.value = ZodiacEnum[i]
               /\ data.value \notin NameSpellings =>
                      result.exc = "ValueError" /\ result.value = None

\* the mixed-case spelling tELEC came back from get_name(from_name(..)) as
\* Telec
C11_Witness ==
    /\ pc = "done"
    /\ call.op = "get_name(from_name)"
    /\ data.value = <<"tELEC">>
    /\ result.value = <<"Telec">>

-----------------------------------------------------------------------------
ClientOps ==
    {"get_zodiac", "get_available_types", "get_available_periods",
     "get_horoscope"}

\* C12: each call of get_zodiac, get_available_types, get_available_periods
\* or get_horoscope sends exactly one request and never retries: from its
\* request on, one request was sent, and a call whose request raised a
\* transport or decoding error ended with that same error, with one request
\* sent and nothing returned.
C12_OneRequestNoRetry ==
    /\ pc = "idle" => sent = 0
    /\ pc \in {"awaiting", "done"} => call.op \in ClientOps /\ sent = 1
    /\ pc = "done" /\ data.exc # "" =>
           /\ data.exc \in TransportErrors
           /\ result.exc = data.exc
           /\ result.value = None

\* a get_available_periods call ended with the JSONDecodeError of its only
\* request
C12_Witness ==
    /\ pc = "done"
    /\ call.op = "get_available_periods"
    /\ data.exc = "JSONDecodeError"
    /\ result.exc = "JSONDecodeError"
    /\ sent = 1

-----------------------------------------------------------------------------
ItemLabels == {<<"Rodilis">>, <<"Stihiya">>}

\* the text of the last item of the highlighted list that carries name
LastItemText(name) ==
    LET items == Content.highlighted
        last == CHOOSE i \in 1..Len(items) :
                    /\ items[i].name = name
                    /\ \A j \in (i + 1)..Len(items) : items[j].name # name
    IN  items[last].text

\* the response with only the items labelled "Родились" or "Стихия"
OnlyLabelledItems ==
    [Content EXCEPT !.highlighted =
        SelectSeq(Content.highlighted, LAMBDA item : item.name \in ItemLabels)]

\* C13: over the highlighted items in order, an item named "Родились" sets
\* born and one named "Стихия" sets element, each to the item's text
\* lowercased, the last such item winning; an item with any other name
\* changes no field and raises no error, so the outcome is the one of the
\* document with only the items carrying the two labels.
C13_ItemsSetBornAndElement ==
    Done("get_zodiac") =>
        /\ result.exc \in {"", "ValidationError"}
        /\ result.exc = "" =>
               /\ result.value.born = Lower(LastItemText(<<"Rodilis">>))
               /\ result.value.element = Lower(LastItemText(<<"Stihiya">>))
        /\ SameOutcome(result, get_zodiac_body(call.zodiac, OnlyLabelledItems))

\* an item named otherwise stood between the two labelled items, and the
\* profile holds their texts lowercased
C13_Witness ==
    /\ Done("get_zodiac")
    /\ Content.highlighted
           = <<Item(<<"Rodilis">>, <<"Mar">>), Item(<<"Simvol">>, <<"X">>),
               Item(<<"Stihiya">>, <<"Fire">>)>>
    /\ result.exc = ""
    /\ result.value.born = <<"mar">>
    /\ result.value.element = <<"fire">>

-----------------------------------------------------------------------------
====
